---- MODULE Spec2Model ----
(***************************************************************************)
(* Model of CompactionPredictor (db/compaction/compaction_predictor.{h,cc}) *)
(* over a VersionStorageInfo snapshot.                                      *)
(*                                                                          *)
(* User keys are the integers 1..MaxKey under their usual order (the order  *)
(* Slice::compare gives byte strings).  Scores are held in hundredths:      *)
(* the score 1.0 is 100, 0.8 is 80, 0.7 is 70.  File numbers are naturals   *)
(* and a file's identity in a result set or in the ledger is the decimal    *)
(* digit string std::to_string makes of its number.                         *)
(***************************************************************************)
EXTENDS Integers, Sequences, FiniteSets

VARIABLES
    vstorage,          \* vstorage_: the VersionStorageInfo the predictor reads
    options,           \* immutable_options_ / mutable_cf_options_ as handed to the constructor
    predicted_files,   \* predicted_files_: std::map<std::string,int>
    call,              \* the last completed public call: its name, arguments and return value
    occurrences,       \* history: per identity, PredictCompactionFiles calls that returned it since it was last removed
    first_predicted    \* history: what the first PredictCompactionFiles call returned

vars == <<vstorage, options, predicted_files, call, occurrences, first_predicted>>

(***************************************************************************)
(* Bounds of the model.                                                    *)
(***************************************************************************)
MaxKey == 4          \* user keys are 1..MaxKey
MaxCount == 2        \* PredictCompactionFiles is called while every counter is below this
MaxRemove == 2       \* RemoveCompactedFiles / RemoveIncorrectPredictedFiles take sets of at most this many ids
MaxBatchBytes == 2   \* the max_compaction_bytes the options carry

(***************************************************************************)
(* std::to_string(uint64_t) and std::stoull: decimal digit strings.        *)
(***************************************************************************)
RECURSIVE to_string(_)
to_string(n) ==
    IF n < 10 THEN <<n>> ELSE Append(to_string(n \div 10), n % 10)

RECURSIVE stoull(_)
stoull(s) ==
    IF Len(s) = 1 THEN s[1]
    ELSE 10 * stoull(SubSeq(s, 1, Len(s) - 1)) + s[Len(s)]

(***************************************************************************)
(* The accessors of VersionStorageInfo the predictor uses.                 *)
(***************************************************************************)
num_levels == vstorage.num_levels

LevelFiles(level) == vstorage.files[level]

NumLevelFiles(level) == Len(LevelFiles(level))

RECURSIVE TotalFileSize(_)
TotalFileSize(fs) ==
    IF fs = <<>> THEN 0 ELSE Head(fs).size + TotalFileSize(Tail(fs))

NumLevelBytes(level) == TotalFileSize(LevelFiles(level))

CompactionScore(level) == vstorage.score[level]

FilesByCompactionPri(level) == vstorage.by_pri[level]

NextCompactionIndex(level) == vstorage.next_index[level]

FileNumber(file) == to_string(file.number)

\* !(file_largest < smallest || file_smallest > largest) on user keys
RangeOverlaps(file_smallest, file_largest, smallest, largest) ==
    ~(file_largest < smallest \/ file_smallest > largest)

Min(a, b) == IF a < b THEN a ELSE b
Max(a, b) == IF a > b THEN a ELSE b

\* Indices (1-based) of a file list
Idx(fs) == 1..Len(fs)

\* the files of a level, and their identities
FilesOf(level) == {LevelFiles(level)[i] : i \in Idx(LevelFiles(level))}

NumbersOf(level) == {FileNumber(f) : f \in FilesOf(level)}

(***************************************************************************)
(* GetPossibleTargetFilesForL0Compaction                                    *)
(***************************************************************************)
\* the merged user-key range of the level-0 files that are not being compacted
L0Live == {i \in Idx(LevelFiles(0)) : ~LevelFiles(0)[i].being_compacted}

RECURSIVE MinOf(_)
MinOf(S) ==
    LET x == CHOOSE y \in S : TRUE
    IN  IF S = {x} THEN x ELSE Min(x, MinOf(S \ {x}))

RECURSIVE MaxOf(_)
MaxOf(S) ==
    LET x == CHOOSE y \in S : TRUE
    IN  IF S = {x} THEN x ELSE Max(x, MaxOf(S \ {x}))

\* faulty variant: the level-0 range is taken over every level-0 file, the ones being
\* compacted included
GetPossibleTargetFilesForL0Compaction_AllL0 ==
    IF NumLevelFiles(0) = 0 \/ NumLevelFiles(1) = 0 THEN {}
    ELSE LET all == Idx(LevelFiles(0))
             smallest_l0_key == MinOf({LevelFiles(0)[i].smallest : i \in all})
             largest_l0_key  == MaxOf({LevelFiles(0)[i].largest : i \in all})
         IN  {FileNumber(LevelFiles(1)[i]) : i \in
                 {j \in Idx(LevelFiles(1)) :
                     /\ ~LevelFiles(1)[j].being_compacted
                     /\ RangeOverlaps(LevelFiles(1)[j].smallest, LevelFiles(1)[j].largest,
                                      smallest_l0_key, largest_l0_key)}}

GetPossibleTargetFilesForL0Compaction ==
    IF NumLevelFiles(0) = 0 \/ NumLevelFiles(1) = 0 THEN {}
    ELSE IF L0Live = {} THEN {}
    ELSE LET smallest_l0_key == MinOf({LevelFiles(0)[i].smallest : i \in L0Live})
             largest_l0_key  == MaxOf({LevelFiles(0)[i].largest : i \in L0Live})
         IN  {FileNumber(LevelFiles(1)[i]) : i \in
                 {j \in Idx(LevelFiles(1)) :
                     /\ ~LevelFiles(1)[j].being_compacted
                     /\ RangeOverlaps(LevelFiles(1)[j].smallest, LevelFiles(1)[j].largest,
                                      smallest_l0_key, largest_l0_key)}}

(***************************************************************************)
(* GetTargetLevelFilesForCompaction(source_level, target_level, source_files)*)
(***************************************************************************)
GetTargetLevelFilesForCompaction(source_level, target_level, source_files) ==
    IF source_files = {} THEN {}
    ELSE IF target_level >= num_levels THEN {}
    ELSE IF NumLevelFiles(target_level) = 0 THEN {}
    ELSE LET src == LevelFiles(source_level)
             source_file_meta ==
                 {i \in Idx(src) : /\ FileNumber(src[i]) \in source_files
                                   /\ ~src[i].being_compacted}
         IN  IF source_file_meta = {} THEN {}
             ELSE LET smallest_source_key == MinOf({src[i].smallest : i \in source_file_meta})
                      largest_source_key  == MaxOf({src[i].largest : i \in source_file_meta})
                      tgt == LevelFiles(target_level)
                  IN  {FileNumber(tgt[i]) : i \in
                          {j \in Idx(tgt) :
                              /\ ~tgt[j].being_compacted
                              /\ RangeOverlaps(tgt[j].smallest, tgt[j].largest,
                                               smallest_source_key, largest_source_key)}}

(***************************************************************************)
(* GetLevelCompactionFiles(level), for a level index the version has.      *)
(* Indices into level_files are 0-based as in the source.                  *)
(***************************************************************************)
FileAt(level, index) == LevelFiles(level)[index + 1]

\* the while loop that walks file_by_compaction_pri from the compaction
\* pointer: the index of the first file not being compacted, or -1
RECURSIVE FindStartFile(_, _, _)
FindStartFile(level, compaction_pointer_index, checked_files) ==
    LET pri   == FilesByCompactionPri(level)
        index == pri[compaction_pointer_index + 1]
        next  == (compaction_pointer_index + 1) % Len(pri)
    IN  IF checked_files >= Len(pri) THEN -1
        ELSE IF index >= NumLevelFiles(level)
             THEN FindStartFile(level, next, checked_files + 1)
        ELSE IF FileAt(level, index).being_compacted
             THEN FindStartFile(level, next, checked_files + 1)
        ELSE index

\* the fallback: the first file of the largest size among those not being
\* compacted (a size of 0 never beats largest_size = 0), or -1
RECURSIVE LargestFile(_, _, _, _)
LargestFile(level, i, largest_size, largest_file) ==
    IF i >= NumLevelFiles(level) THEN largest_file
    ELSE IF ~FileAt(level, i).being_compacted /\ FileAt(level, i).size > largest_size
         THEN LargestFile(level, i + 1, FileAt(level, i).size, i)
    ELSE LargestFile(level, i + 1, largest_size, largest_file)

\* faulty variant: a file one key away from the merged range counts as overlapping
RECURSIVE ScanLevel_Adjacent(_, _, _)
ScanLevel_Adjacent(level, i, st) ==
    IF i >= NumLevelFiles(level) THEN st
    ELSE LET other_file == FileAt(level, i)
         IN  IF \/ i \in st.included_indices
                \/ other_file.being_compacted
                \/ ~RangeOverlaps(other_file.smallest - 1, other_file.largest + 1,
                                  st.smallest_key, st.largest_key)
             THEN ScanLevel_Adjacent(level, i + 1, st)
             ELSE ScanLevel_Adjacent(level, i + 1,
                    [included_indices |-> st.included_indices \cup {i},
                     files            |-> st.files \cup {FileNumber(other_file)},
                     smallest_key     |-> Min(other_file.smallest, st.smallest_key),
                     largest_key      |-> Max(other_file.largest, st.largest_key),
                     expansion_rounds |-> st.expansion_rounds])

\* one pass of the for loop over level_files inside while (expanded)
RECURSIVE ScanLevel(_, _, _)
ScanLevel(level, i, st) ==
    IF i >= NumLevelFiles(level) THEN st
    ELSE LET other_file == FileAt(level, i)
         IN  IF \/ i \in st.included_indices
                \/ other_file.being_compacted
                \/ ~RangeOverlaps(other_file.smallest, other_file.largest,
                                  st.smallest_key, st.largest_key)
             THEN ScanLevel(level, i + 1, st)
             ELSE ScanLevel(level, i + 1,
                    [included_indices |-> st.included_indices \cup {i},
                     files            |-> st.files \cup {FileNumber(other_file)},
                     smallest_key     |-> Min(other_file.smallest, st.smallest_key),
                     largest_key      |-> Max(other_file.largest, st.largest_key),
                     expansion_rounds |-> st.expansion_rounds])

\* faulty variant: a single pass over the level instead of passes up to a fixed point
ExpandToCleanCut_OnePass(level, st) == ScanLevel(level, 0, st)

\* while (expanded): passes until one adds no index
RECURSIVE ExpandToCleanCut(_, _)
ExpandToCleanCut(level, st) ==
    LET after == ScanLevel(level, 0, st)
    IN  IF Cardinality(after.included_indices) > Cardinality(st.included_indices)
        THEN ExpandToCleanCut(level, [after EXCEPT !.expansion_rounds = @ + 1])
        ELSE after

StartState(level, start_file, start_index) ==
    [included_indices |-> IF start_index >= 0 THEN {start_index} ELSE {},
     files            |-> {FileNumber(FileAt(level, start_file))},
     smallest_key     |-> FileAt(level, start_file).smallest,
     largest_key      |-> FileAt(level, start_file).largest,
     expansion_rounds |-> 0]

NoFiles == [included_indices |-> {}, files |-> {}, smallest_key |-> 0,
            largest_key |-> 0, expansion_rounds |-> 0]

\* faulty variant: the walk starts at the head of the order, whatever the pointer
StartPointer_FromHead(level) == 0

\* the index the pointer walk starts from
StartPointer(level) ==
    IF NextCompactionIndex(level) >= Len(FilesByCompactionPri(level))
    THEN 0 ELSE NextCompactionIndex(level)

\* the whole function, with the locals it ends with
LevelCompaction(level) ==
    IF NumLevelFiles(level) = 0 THEN NoFiles
    ELSE IF level = 0 THEN NoFiles
    ELSE IF Len(FilesByCompactionPri(level)) = 0 THEN NoFiles
    ELSE LET start_index == FindStartFile(level, StartPointer(level), 0)
         IN  IF start_index >= 0
             THEN ExpandToCleanCut(level, StartState(level, start_index, start_index))
             ELSE LET largest_file == LargestFile(level, 0, 0, -1)
                  IN  IF largest_file = -1 THEN NoFiles
                      ELSE ExpandToCleanCut(level, StartState(level, largest_file, -1))

GetLevelCompactionFiles(level) == LevelCompaction(level).files

(***************************************************************************)
(* double: the non-negative finite values of IEEE-754 binary64.  A value   *)
(* is mant * 2^exp, mant being the 53 significand bits, most significant   *)
(* (always 1) first; zero is the empty significand.  Division and          *)
(* multiplication round to nearest, ties to even, as the hardware does.    *)
(***************************************************************************)
Precision == 53

Zero == [mant |-> <<>>, exp |-> 0]

\* the binary digits of a natural number, most significant first
RECURSIVE BitsOf(_)
BitsOf(n) == IF n = 0 THEN <<>> ELSE Append(BitsOf(n \div 2), n % 2)

Zeros(k) == [i \in 1..k |-> 0]

StripZeros(bits) ==
    IF \A i \in 1..Len(bits) : bits[i] = 0 THEN <<>>
    ELSE LET first == CHOOSE i \in 1..Len(bits) :
                          bits[i] = 1 /\ \A j \in 1..(i - 1) : bits[j] = 0
         IN  SubSeq(bits, first, Len(bits))

\* bits + 1
Increment(bits) ==
    IF \A i \in 1..Len(bits) : bits[i] = 1 THEN <<1>> \o Zeros(Len(bits))
    ELSE LET last == CHOOSE i \in 1..Len(bits) :
                         bits[i] = 0 /\ \A j \in (i + 1)..Len(bits) : bits[j] = 1
         IN  [i \in 1..Len(bits) |->
                 IF i < last THEN bits[i] ELSE IF i = last THEN 1 ELSE 0]

\* the double nearest to bits * 2^exp (plus a non-zero fraction of the last
\* bit when sticky), bits starting with 1
RoundToDouble(bits, exp, sticky) ==
    IF bits = <<>> THEN Zero
    ELSE IF Len(bits) <= Precision
    THEN [mant |-> bits \o Zeros(Precision - Len(bits)),
          exp  |-> exp - (Precision - Len(bits))]
    ELSE LET kept == SubSeq(bits, 1, Precision)
             rest == SubSeq(bits, Precision + 1, Len(bits))
             more == sticky \/ \E i \in 2..Len(rest) : rest[i] = 1
             up   == rest[1] = 1 /\ (more \/ kept[Precision] = 1)
             inc  == Increment(kept)
             e    == exp + Len(rest)
         IN  IF ~up THEN [mant |-> kept, exp |-> e]
             ELSE IF Len(inc) > Precision
                  THEN [mant |-> SubSeq(inc, 1, Precision), exp |-> e + 1]
                  ELSE [mant |-> inc, exp |-> e]

\* quotient and remainder of (rem * 2^Len(bits) + bits) by d
RECURSIVE LongDivide(_, _, _)
LongDivide(bits, d, rem) ==
    IF bits = <<>> THEN [quot |-> <<>>, rem |-> rem]
    ELSE IF Len(bits) = 1
    THEN LET r == 2 * rem + bits[1]
         IN  IF r >= d THEN [quot |-> <<1>>, rem |-> r - d]
             ELSE [quot |-> <<0>>, rem |-> r]
    ELSE LET half  == Len(bits) \div 2
             left  == LongDivide(SubSeq(bits, 1, half), d, rem)
             right == LongDivide(SubSeq(bits, half + 1, Len(bits)), d, left.rem)
         IN  [quot |-> left.quot \o right.quot, rem |-> right.rem]

\* bits * n + carry, as Len(bits) low bits and what carries out of them
RECURSIVE MultiplyBits(_, _, _)
MultiplyBits(bits, n, carry) ==
    IF bits = <<>> THEN [bits |-> <<>>, carry |-> carry]
    ELSE IF Len(bits) = 1
    THEN LET t == n * bits[1] + carry
         IN  [bits |-> <<t % 2>>, carry |-> t \div 2]
    ELSE LET half  == Len(bits) \div 2
             right == MultiplyBits(SubSeq(bits, half + 1, Len(bits)), n, carry)
         IN  IF right.carry < 0 THEN right
             ELSE LET left == MultiplyBits(SubSeq(bits, 1, half), n, right.carry)
                  IN  [bits |-> left.bits \o right.bits, carry |-> left.carry]

\* x / static_cast<double>(d), d a positive integer below 2^14: the quotient
\* is carried to 16 more bits than x has before it is rounded
DivideBy(x, d) ==
    IF x = Zero THEN Zero
    ELSE LET p == LongDivide(x.mant \o Zeros(16), d, 0)
         IN  RoundToDouble(StripZeros(p.quot), x.exp - 16, p.rem # 0)

\* x * static_cast<double>(n), n a natural number
MultiplyBy(x, n) ==
    IF x = Zero \/ n = 0 THEN Zero
    ELSE LET p == MultiplyBits(x.mant, n, 0)
         IN  RoundToDouble(BitsOf(p.carry) \o p.bits, x.exp, FALSE)

\* the double a score of h hundredths is: the one nearest to h/100
FromHundredths(h) ==
    LET p == LongDivide(BitsOf(h) \o Zeros(64), 100, 0)
    IN  RoundToDouble(StripZeros(p.quot), 0 - 64, p.rem # 0)

\* x < y
Less(x, y) ==
    IF y = Zero THEN FALSE
    ELSE IF x = Zero THEN TRUE
    ELSE IF x.exp # y.exp THEN x.exp < y.exp
    ELSE \E i \in 1..Precision :
            /\ x.mant[i] < y.mant[i]
            /\ \A j \in 1..(i - 1) : x.mant[j] = y.mant[j]

(***************************************************************************)
(* CalculateNewScore(level, files_to_remove): the double it returns.       *)
(***************************************************************************)
RECURSIVE RemovedSize(_, _)
RemovedSize(fs, files_to_remove) ==
    IF fs = <<>> THEN 0
    ELSE (IF FileNumber(Head(fs)) \in files_to_remove THEN Head(fs).size ELSE 0)
         + RemovedSize(Tail(fs), files_to_remove)

\* (score / level_size) * new_level_size in doubles, score being h hundredths
ScaledScore(h, level_size, new_level_size) ==
    MultiplyBy(DivideBy(FromHundredths(h), level_size), new_level_size)

\* ScaledScore for the scores and sizes of small levels, tabulated so that
\* each value is computed once
ScaledScores ==
    LET top   == (MaxKey * (MaxKey + 1)) \div 2 + 2
        table == [k \in 0..30 |-> [level_size \in 1..top |->
                     [new_level_size \in 0..top |->
                         ScaledScore(10 * k, level_size, new_level_size)]]]
    IN  IF table = table THEN table ELSE table

CalculateNewScore(level, files_to_remove) ==
    IF level < 1 \/ level >= num_levels THEN Zero
    ELSE LET level_size     == NumLevelBytes(level)
             removed_size   == RemovedSize(LevelFiles(level), files_to_remove)
             current_score  == CompactionScore(level)
             new_level_size == level_size - removed_size
         IN  IF removed_size > level_size THEN Zero
             ELSE IF level_size > 0
             THEN IF /\ current_score % 10 = 0 /\ current_score \div 10 \in 0..30
                     /\ level_size <= (MaxKey * (MaxKey + 1)) \div 2 + 2
                  THEN ScaledScores[current_score \div 10][level_size][new_level_size]
                  ELSE ScaledScore(current_score, level_size, new_level_size)
             ELSE Zero

One == FromHundredths(100)

\* new_score > 1.0
ScoreAboveOne(new_score) == Less(One, new_score)

(***************************************************************************)
(* CheckL1ToL2Compaction                                                   *)
(***************************************************************************)
\* faulty variant: more than 8 level-1 files instead of 8 or more
CheckL1ToL2Compaction_MoreThan8 ==
    IF CompactionScore(0) <= 100 THEN FALSE
    ELSE IF CompactionScore(1) >= 100 THEN FALSE
    ELSE IF CompactionScore(1) >= 70 THEN TRUE
    ELSE IF NumLevelFiles(1) > 8 THEN TRUE
    ELSE IF NumLevelBytes(2) > 0 /\ NumLevelBytes(1) > 2 * NumLevelBytes(2) THEN TRUE
    ELSE FALSE

CheckL1ToL2Compaction ==
    IF CompactionScore(0) <= 100 THEN FALSE
    ELSE IF CompactionScore(1) >= 100 THEN FALSE
    ELSE IF CompactionScore(1) >= 70 THEN TRUE
    ELSE IF NumLevelFiles(1) >= 8 THEN TRUE
    ELSE IF NumLevelBytes(2) > 0 /\ NumLevelBytes(1) > 2 * NumLevelBytes(2) THEN TRUE
    ELSE FALSE

(***************************************************************************)
(* GetNextCompactionFilesFrom(level, excluded_files)                       *)
(***************************************************************************)
\* the first file of the level whose number is not excluded (0-based), or -1
RECURSIVE FirstNotExcluded(_, _, _)
FirstNotExcluded(level, i, excluded_files) ==
    IF i >= NumLevelFiles(level) THEN -1
    ELSE IF FileNumber(FileAt(level, i)) \notin excluded_files THEN i
    ELSE FirstNotExcluded(level, i + 1, excluded_files)

GetNextCompactionFilesFrom(level, excluded_files) ==
    IF NumLevelFiles(level) = 0 THEN {}
    ELSE LET start == FirstNotExcluded(level, 0, excluded_files)
         IN  IF start = -1 THEN {}
             ELSE LET start_file == FileAt(level, start)
                      same_level ==
                          {FileNumber(FileAt(level, i)) : i \in
                              {j \in 0..(NumLevelFiles(level) - 1) :
                                  /\ j # start
                                  /\ FileNumber(FileAt(level, j)) \notin excluded_files
                                  /\ ~(\/ start_file.smallest > FileAt(level, j).largest
                                       \/ start_file.largest < FileAt(level, j).smallest)}}
                      next_level ==
                          IF level + 1 < num_levels
                          THEN {FileNumber(FileAt(level + 1, i)) : i \in
                                  {j \in 0..(NumLevelFiles(level + 1) - 1) :
                                      /\ FileNumber(FileAt(level + 1, j)) \notin excluded_files
                                      /\ ~(\/ start_file.smallest > FileAt(level + 1, j).largest
                                           \/ start_file.largest < FileAt(level + 1, j).smallest)}}
                          ELSE {}
                  IN  {FileNumber(start_file)} \cup same_level \cup next_level

(***************************************************************************)
(* PredictCompactionFiles: the set it returns.                             *)
(***************************************************************************)
\* step 1: the level-1 files an L0 -> L1 compaction would take in
L0Predicted ==
    IF NumLevelFiles(0) > 0 /\ CompactionScore(0) > 100
    THEN GetPossibleTargetFilesForL0Compaction
    ELSE {}

\* the nearest level above `level` whose score is over 1.0, or -1
RECURSIVE TriggeringLevel(_)
TriggeringLevel(higher_level) ==
    IF higher_level < 0 THEN -1
    ELSE IF CompactionScore(higher_level) > 100 THEN higher_level
    ELSE TriggeringLevel(higher_level - 1)

\* faulty variant: the level's own score must be over 0.8 too
CascadeFromAbove_OwnScore(level) ==
    LET triggering_level == TriggeringLevel(level - 1)
    IN  /\ triggering_level >= 0
        /\ \A mid_level \in (triggering_level + 1)..level :
              CompactionScore(mid_level) > 80

\* case 2 of the loop body: a level above is over 1.0 and every level strictly
\* between it and `level` is over 0.8
CascadeFromAbove(level) ==
    LET triggering_level == TriggeringLevel(level - 1)
    IN  /\ triggering_level >= 0
        /\ \A mid_level \in (triggering_level + 1)..(level - 1) :
              CompactionScore(mid_level) > 80

WillCompact(level) ==
    IF CompactionScore(level) > 100 THEN TRUE
    ELSE IF CascadeFromAbove(level) THEN TRUE
    ELSE level = 1 /\ CheckL1ToL2Compaction

\* faulty variant: the loop allows a fourth round
RECURSIVE RefinementRounds_FourRounds(_, _, _)
RefinementRounds_FourRounds(level, i, already_predicted) ==
    IF i < 4 /\ ScoreAboveOne(CalculateNewScore(level, already_predicted))
    THEN LET additional_files == GetNextCompactionFilesFrom(level, already_predicted)
             round == [already_predicted |-> already_predicted,
                       additional_files  |-> additional_files]
         IN  IF additional_files = {} THEN <<round>>
             ELSE <<round>> \o RefinementRounds_FourRounds(
                                   level, i + 1, already_predicted \cup additional_files)
    ELSE <<>>

\* the rounds the for (i < 3 && new_score > 1.0) loop runs from round i on:
\* what is already predicted when a round starts, and the files it finds
RECURSIVE RefinementRounds(_, _, _)
RefinementRounds(level, i, already_predicted) ==
    IF i < 3 /\ ScoreAboveOne(CalculateNewScore(level, already_predicted))
    THEN LET additional_files == GetNextCompactionFilesFrom(level, already_predicted)
             round == [already_predicted |-> already_predicted,
                       additional_files  |-> additional_files]
         IN  IF additional_files = {} THEN <<round>>
             ELSE <<round>> \o RefinementRounds(
                                   level, i + 1, already_predicted \cup additional_files)
    ELSE <<>>

\* the additional files of all the rounds of the loop
ExtraRounds(level, i, already_predicted) ==
    LET rounds == RefinementRounds(level, i, already_predicted)
    IN  UNION {rounds[k].additional_files : k \in 1..Len(rounds)}

\* what one iteration of the loop over levels 1..num_levels-2 adds
PredictLevel(level) ==
    IF NumLevelFiles(level) = 0 THEN {}
    ELSE IF ~WillCompact(level) THEN {}
    ELSE LET level_files == GetLevelCompactionFiles(level)
         IN  IF level_files = {} THEN {}
             ELSE level_files
                    \cup ExtraRounds(level, 0, level_files)
                    \cup (IF level + 1 < num_levels
                          THEN GetTargetLevelFilesForCompaction(level, level + 1, level_files)
                          ELSE {})

\* the refinement rounds one iteration of the loop over levels runs
PredictedRounds(level) ==
    IF NumLevelFiles(level) = 0 THEN <<>>
    ELSE IF ~WillCompact(level) THEN <<>>
    ELSE LET level_files == GetLevelCompactionFiles(level)
         IN  IF level_files = {} THEN <<>>
             ELSE RefinementRounds(level, 0, level_files)

\* the files of the level itself that one iteration selects: the initial
\* level_files and what the refinement rounds add from the level
PredictedSameLevel(level) ==
    IF NumLevelFiles(level) = 0 THEN {}
    ELSE IF ~WillCompact(level) THEN {}
    ELSE LET level_files == GetLevelCompactionFiles(level)
         IN  IF level_files = {} THEN {}
             ELSE level_files
                    \cup (ExtraRounds(level, 0, level_files) \cap NumbersOf(level))

\* faulty variant: files the ledger already holds are left out of the result
PredictCompactionFiles_SkipsRecorded ==
    (L0Predicted \cup UNION {PredictLevel(level) : level \in 1..(num_levels - 2)})
        \ DOMAIN predicted_files

PredictCompactionFiles ==
    L0Predicted \cup UNION {PredictLevel(level) : level \in 1..(num_levels - 2)}

(***************************************************************************)
(* The ledger: predicted_files_ and the three calls that change it.        *)
(***************************************************************************)
\* faulty variant: predicted_files_[file] = 1 instead of ++
RecordPredicted_SetsOne(ledger, current_predicted) ==
    [file \in DOMAIN ledger \cup current_predicted |->
        IF file \in current_predicted THEN 1 ELSE ledger[file]]

\* for (file : current_predicted) predicted_files_[file]++
RecordPredicted(ledger, current_predicted) ==
    [file \in DOMAIN ledger \cup current_predicted |->
        IF file \in current_predicted
        THEN (IF file \in DOMAIN ledger THEN ledger[file] ELSE 0) + 1
        ELSE ledger[file]]

\* faulty variant: an entry predicted more than once survives the removal
EraseFiles_KeepsRepeated(ledger, compacted_files) ==
    [file \in {f \in DOMAIN ledger : f \notin compacted_files \/ ledger[f] > 1} |->
        ledger[file]]

\* for (file : compacted_files) { it = find(file); if (it != end) erase(it); }
EraseFiles(ledger, compacted_files) ==
    [file \in DOMAIN ledger \ compacted_files |-> ledger[file]]

\* RemoveIncorrectPredictedFiles runs the same loop over incorrect_files
EraseIncorrect(ledger, incorrect_files) ==
    [file \in DOMAIN ledger \ incorrect_files |-> ledger[file]]

\* GetPredictedFiles: the keys, each through std::stoull
GetPredictedFiles == {stoull(file) : file \in DOMAIN predicted_files}

(***************************************************************************)
(* Versions the model starts from.                                         *)
(*                                                                         *)
(* A level >= 1 holds files sorted by key whose user-key ranges may share  *)
(* a boundary key but not more: it is a selection of the tiles [j, j+1],   *)
(* j in 1..MaxKey-1.  Tile j of level l has number 10*l + j and size j.    *)
(* Level 0 holds up to two files with any of a few ranges, overlapping or  *)
(* not.  The last level has no compaction-priority order.                  *)
(***************************************************************************)
Tile(level, j, bc) ==
    [number |-> 10 * level + j, smallest |-> j, largest |-> j + 1,
     size |-> j, being_compacted |-> bc]

RECURSIVE TileSeq(_, _, _)
TileSeq(level, present, compacting) ==
    IF present = {} THEN <<>>
    ELSE LET j == MinOf(present)
         IN  <<Tile(level, j, j \in compacting)>>
               \o TileSeq(level, present \ {j}, compacting)

Tiles == 1..(MaxKey - 1)

TileLayouts(level) ==
    {TileSeq(level, present, compacting) :
        present \in SUBSET Tiles, compacting \in SUBSET Tiles}

\* up to 9 one-key files [k,k] of size 1: a level with many small files
RECURSIVE PointSeq(_, _)
PointSeq(level, n) ==
    IF n = 0 THEN <<>>
    ELSE Append(PointSeq(level, n - 1),
                [number |-> 10 * level + n, smallest |-> n, largest |-> n,
                 size |-> 1, being_compacted |-> FALSE])

L0Ranges == {<<1, 1>>, <<MaxKey, MaxKey>>, <<1, MaxKey>>}

L0File(n, range, bc) ==
    [number |-> n, smallest |-> range[1], largest |-> range[2],
     size |-> 1, being_compacted |-> bc]

L0Layouts ==
    {<<>>}
    \cup {<<L0File(1, r, bc)>> : r \in L0Ranges, bc \in BOOLEAN}
    \cup {<<L0File(1, r[1], b[1]), L0File(2, r[2], b[2])>> :
            r \in {q \in L0Ranges \X L0Ranges : q[1] # q[2] /\ q[1][1] <= q[2][1]},
            b \in BOOLEAN \X BOOLEAN}

RECURSIVE Iota(_)
Iota(n) == IF n = 0 THEN <<>> ELSE Append(Iota(n - 1), n - 1)

RECURSIVE Reverse(_)
Reverse(q) == IF q = <<>> THEN <<>> ELSE Append(Reverse(Tail(q)), Head(q))

\* a version of n levels: files per level, scores of levels 0..n-2, the
\* compaction pointer of level 1 and whether the priority orders run backwards.
\* A level's score is computed from its files that are not being compacted:
\* a level without any has score 0.
Version(files, score, pointer, backwards) ==
    LET n == Len(files)
    IN  [num_levels |-> n,
         files      |-> [level \in 0..(n - 1) |-> files[level + 1]],
         score      |-> [level \in 0..(n - 2) |->
                            IF \E i \in Idx(files[level + 1]) :
                                   ~files[level + 1][i].being_compacted
                            THEN score[level + 1] ELSE 0],
         next_index |-> [level \in 0..(n - 1) |-> IF level = 1 THEN pointer ELSE 0],
         by_pri     |-> [level \in 0..(n - 1) |->
                            IF level = n - 1 THEN <<>>
                            ELSE IF backwards THEN Reverse(Iota(Len(files[level + 1])))
                            ELSE Iota(Len(files[level + 1]))]]

\* level-2 layouts under a level 1 that varies: every tile present, at most
\* one of them being compacted; or no file at all
TargetLayouts(level) ==
    {<<>>, TileSeq(level, Tiles, {})}
    \cup {TileSeq(level, Tiles, {j}) : j \in Tiles}

\* L0 -> L1: every level-0 layout over every level-1 layout
VersionsL0 ==
    {Version(<<l0, l1, <<Tile(2, 1, FALSE)>> >>, <<s0, s1>>, 0, FALSE) :
        l0 \in L0Layouts, l1 \in TileLayouts(1),
        s0 \in {100, 200}, s1 \in {50, 300}}

\* L1 -> L2: every level-1 layout, compaction pointer and priority direction
VersionsL1 ==
    UNION {{Version(<<<<L0File(1, <<1, 1>>, FALSE)>>, l1, l2>>, s, pointer, backwards) :
               pointer \in 0..Len(l1), l2 \in TargetLayouts(2),
               s \in {<<200, 50>>, <<100, 300>>}, backwards \in BOOLEAN} :
           l1 \in TileLayouts(1)}

ScoreValues == {50, 70, 80, 90, 100, 300}

\* four levels, few layouts, every combination of scores
VersionsScores ==
    {Version(<<l0, l1, l2, <<Tile(3, 2, FALSE)>> >>, <<s0, s1, s2>>, 0, FALSE) :
        l0 \in {<<>>, <<L0File(1, <<1, 1>>, FALSE)>>},
        l1 \in {<<Tile(1, 3, FALSE)>>, TileSeq(1, {2, 3}, {}),
                PointSeq(1, 7), PointSeq(1, 8), PointSeq(1, 9)},
        l2 \in {<<>>, <<Tile(2, 1, FALSE)>>, TileSeq(2, {1, 3}, {})},
        s0 \in {100, 200}, s1 \in ScoreValues, s2 \in {80, 90, 300}}

\* the versions of the ledger specification: no file being compacted
VersionsLedger ==
    {Version(<<l0, TileSeq(1, present, {}), <<Tile(2, 2, FALSE)>> >>, <<200, s1>>, 0, backwards) :
        l0 \in {<<L0File(1, <<1, 2>>, FALSE)>>},
        present \in {{}, {1}, {1, 3}, {1, 2, 3}}, s1 \in {50, 300}, backwards \in BOOLEAN}

\* a level 1 with a gap: tile 1 apart from the two tiles that end at key
\* MaxKey + 1, over a level-2 file that starts at that key
VersionsSpread ==
    {Version(<<<<L0File(1, <<1, 1>>, FALSE)>>,
               TileSeq(1, {1, MaxKey - 1, MaxKey}, compacting),
               <<Tile(2, j, bc)>> >>,
             <<100, s1>>, pointer, FALSE) :
        compacting \in {{}, {MaxKey - 1}}, j \in {2, MaxKey + 1}, bc \in BOOLEAN,
        s1 \in {50, 300}, pointer \in 0..2}

\* score estimation and refinement rounds: three levels, every level-1 layout
\* or seven one-key files, over a full or an empty level 2
VersionsRefine ==
    {Version(<<<<L0File(1, <<1, 1>>, FALSE)>>, l1, l2>>, <<100, s1>>, 0, FALSE) :
        l1 \in TileLayouts(1) \cup {PointSeq(1, 7)},
        l2 \in {<<>>, TileSeq(2, Tiles, {})},
        s1 \in {90, 300}}

\* kRoundRobin or not, with the byte budget of a compaction
Options == [round_robin : BOOLEAN, max_compaction_bytes : {MaxBatchBytes}]

(***************************************************************************)
(* The state machine.                                                      *)
(***************************************************************************)
AllNumbers ==
    UNION {{FileNumber(LevelFiles(level)[i]) : i \in Idx(LevelFiles(level))} :
           level \in 0..(num_levels - 1)}

\* an identity no file of the version has
UnknownFile == to_string(99)

NoCall == [op |-> "none", level |-> 0, files |-> {}, status |-> "returned",
           ret |-> {}, flag |-> FALSE, score |-> Zero, rounds |-> <<>>,
           expansion_rounds |-> 0]

InitPredictor ==
    /\ predicted_files = [file \in {} |-> 0]
    /\ call = NoCall
    /\ occurrences = [file \in AllNumbers \cup {UnknownFile} |-> 0]
    /\ first_predicted = <<>>

Init ==
    /\ vstorage \in VersionsLedger
    /\ options \in Options
    /\ InitPredictor

InitSelect ==
    /\ vstorage \in VersionsL0 \cup VersionsL1 \cup VersionsScores \cup VersionsSpread
    /\ options = [round_robin |-> FALSE, max_compaction_bytes |-> MaxBatchBytes]
    /\ InitPredictor

InitRefine ==
    /\ vstorage \in VersionsRefine
    /\ options = [round_robin |-> FALSE, max_compaction_bytes |-> MaxBatchBytes]
    /\ InitPredictor

PredictCall ==
    /\ \A file \in DOMAIN predicted_files : predicted_files[file] < MaxCount
    /\ LET current_predicted == PredictCompactionFiles
       IN  /\ predicted_files' = RecordPredicted(predicted_files, current_predicted)
           /\ call' = [NoCall EXCEPT !.op = "PredictCompactionFiles",
                                     !.ret = current_predicted,
                                     !.rounds = [level \in 1..(num_levels - 2) |->
                                                    PredictedRounds(level)]]
           /\ occurrences' = [file \in DOMAIN occurrences |->
                                 IF file \in current_predicted
                                 THEN occurrences[file] + 1 ELSE occurrences[file]]
           /\ first_predicted' = IF first_predicted = <<>>
                                 THEN <<current_predicted>> ELSE first_predicted
    /\ UNCHANGED <<vstorage, options>>

RemoveSets ==
    {S \in SUBSET (AllNumbers \cup {UnknownFile}) : Cardinality(S) <= MaxRemove}

RemoveCompactedFiles ==
    \E compacted_files \in RemoveSets :
        /\ predicted_files' = EraseFiles(predicted_files, compacted_files)
        /\ call' = [NoCall EXCEPT !.op = "RemoveCompactedFiles",
                                  !.files = compacted_files]
        /\ occurrences' = [file \in DOMAIN occurrences |->
                              IF file \in compacted_files THEN 0 ELSE occurrences[file]]
        /\ UNCHANGED <<vstorage, options, first_predicted>>

RemoveIncorrectPredictedFiles ==
    \E incorrect_files \in RemoveSets :
        /\ predicted_files' = EraseIncorrect(predicted_files, incorrect_files)
        /\ call' = [NoCall EXCEPT !.op = "RemoveIncorrectPredictedFiles",
                                  !.files = incorrect_files]
        /\ occurrences' = [file \in DOMAIN occurrences |->
                              IF file \in incorrect_files THEN 0 ELSE occurrences[file]]
        /\ UNCHANGED <<vstorage, options, first_predicted>>

\* vstorage_->LevelFiles(level) is files_[level] with no range check: for a
\* level the version does not have, the read is outside the array and the
\* call may fault, or return whatever the memory there amounts to
OutOfArray(level) == level < 0 \/ level >= num_levels

UndefinedOutcomes ==
    {[status |-> "fault", ret |-> {}]}
    \cup {[status |-> "returned", ret |-> garbage] : garbage \in {{}, AllNumbers}}

GetLevelCompactionFilesCall ==
    \E level \in (-1)..num_levels :
        /\ \E outcome \in
                IF OutOfArray(level) THEN UndefinedOutcomes
                ELSE {[status |-> "returned", ret |-> GetLevelCompactionFiles(level)]} :
              call' = [NoCall EXCEPT !.op = "GetLevelCompactionFiles",
                                     !.level = level,
                                     !.status = outcome.status,
                                     !.ret = outcome.ret,
                                     !.expansion_rounds =
                                         IF OutOfArray(level) THEN 0
                                         ELSE LevelCompaction(level).expansion_rounds]
        /\ UNCHANGED <<vstorage, options, predicted_files, occurrences, first_predicted>>

GetPossibleTargetFilesForL0CompactionCall ==
    /\ call' = [NoCall EXCEPT !.op = "GetPossibleTargetFilesForL0Compaction",
                              !.ret = GetPossibleTargetFilesForL0Compaction]
    /\ UNCHANGED <<vstorage, options, predicted_files, occurrences, first_predicted>>

CheckL1ToL2CompactionCall ==
    /\ call' = [NoCall EXCEPT !.op = "CheckL1ToL2Compaction",
                              !.flag = CheckL1ToL2Compaction]
    /\ UNCHANGED <<vstorage, options, predicted_files, occurrences, first_predicted>>

\* the sets of file identities a caller passes for a level: files of the
\* level and of the next one, and an identity no file has
FileSets(level) ==
    {S \in SUBSET (NumbersOf(level)
                     \cup (IF level + 1 < num_levels THEN NumbersOf(level + 1) ELSE {})
                     \cup {UnknownFile}) :
        Cardinality(S) <= MaxRemove}

\* the levels that have a score (0..num_levels-2), and one past the last level
CalculateNewScoreCall ==
    \E level \in (0..(num_levels - 2)) \cup {num_levels} :
        \E files_to_remove \in
                IF level < num_levels THEN FileSets(level) ELSE {{}, {UnknownFile}} :
            /\ call' = [NoCall EXCEPT !.op = "CalculateNewScore",
                                      !.level = level,
                                      !.files = files_to_remove,
                                      !.score = CalculateNewScore(level, files_to_remove)]
            /\ UNCHANGED <<vstorage, options, predicted_files, occurrences, first_predicted>>

GetNextCompactionFilesFromCall ==
    \E level \in 1..(num_levels - 2) :
        \E excluded_files \in FileSets(level) :
            /\ call' = [NoCall EXCEPT !.op = "GetNextCompactionFilesFrom",
                                      !.level = level,
                                      !.files = excluded_files,
                                      !.ret = GetNextCompactionFilesFrom(level, excluded_files)]
            /\ UNCHANGED <<vstorage, options, predicted_files, occurrences, first_predicted>>

Next ==
    \/ PredictCall
    \/ RemoveCompactedFiles
    \/ RemoveIncorrectPredictedFiles

Spec == Init /\ [][Next]_vars

NextSelect ==
    \/ PredictCall
    \/ GetLevelCompactionFilesCall
    \/ GetPossibleTargetFilesForL0CompactionCall
    \/ CheckL1ToL2CompactionCall

SpecSelect == InitSelect /\ [][NextSelect]_vars

NextRefine ==
    \/ CalculateNewScoreCall
    \/ GetNextCompactionFilesFromCall

SpecRefine == InitRefine /\ [][NextRefine]_vars

(***************************************************************************)
(* Properties.                                                             *)
(***************************************************************************)
Levels == 0..(num_levels - 1)

Predicted == call.op = "PredictCompactionFiles"

\* a returned GetLevelCompactionFiles(level) call for a level >= 1 of the version
LevelCallReturned ==
    /\ call.op = "GetLevelCompactionFiles"
    /\ call.status = "returned"
    /\ call.level \in 1..(num_levels - 1)

\* the files of `level` outside S whose range meets the merged range of S
OutsideOverlapping(level, S) ==
    LET members == {f \in FilesOf(level) : FileNumber(f) \in S}
        lo == CHOOSE k \in {f.smallest : f \in members} :
                  \A f \in members : k <= f.smallest
        hi == CHOOSE k \in {f.largest : f \in members} :
                  \A f \in members : k >= f.largest
    IN  IF members = {} THEN {}
        ELSE {g \in FilesOf(level) :
                 /\ FileNumber(g) \notin S
                 /\ g.smallest <= hi
                 /\ g.largest >= lo}

\* C1: no file that is being compacted is in the set PredictCompactionFiles
\* returns, whichever step of the call contributed it.
C1_NoBeingCompactedLeak ==
    Predicted =>
        \A level \in Levels : \A f \in FilesOf(level) :
            f.being_compacted => FileNumber(f) \notin call.ret

\* C2 as stated: no file of the level outside the set GetLevelCompactionFiles
\* returned, being compacted or not, has a range meeting the set's merged range.
C2_CleanCutClosure ==
    LevelCallReturned => OutsideOverlapping(call.level, call.ret) = {}

\* C2 amended: every file of the level outside the returned set whose range
\* meets the set's merged range is a file that is being compacted.
C2_CleanCutAmongLive ==
    LevelCallReturned =>
        \A g \in OutsideOverlapping(call.level, call.ret) : g.being_compacted

C2_Witness ==
    /\ LevelCallReturned
    /\ Cardinality(call.ret) >= 2
    /\ Cardinality(call.ret) < NumLevelFiles(call.level)
    /\ OutsideOverlapping(call.level, call.ret) # {}

\* C3: every PredictCompactionFiles call returns what the first call on this
\* version returned, whatever the ledger held and whatever was removed between.
C3_Determinism ==
    Predicted => first_predicted = <<call.ret>>

C3_Witness ==
    /\ Predicted
    /\ \E f \in call.ret : predicted_files[f] = 2
    /\ \E f \in call.ret : predicted_files[f] = 1

\* C4: a RemoveCompactedFiles(S) or RemoveIncorrectPredictedFiles(S) step leaves
\* the ledger with exactly its former keys outside S, each with its former
\* counter; no id of S is among GetPredictedFiles afterwards.
C4_RemoveExactlyS ==
    [][call'.op \in {"RemoveCompactedFiles", "RemoveIncorrectPredictedFiles"} =>
          /\ DOMAIN predicted_files' = DOMAIN predicted_files \ call'.files
          /\ \A file \in DOMAIN predicted_files' :
                predicted_files'[file] = predicted_files[file]
          /\ \A file \in call'.files : stoull(file) \notin GetPredictedFiles']_vars

C4_Witness ==
    /\ call.op \in {"RemoveCompactedFiles", "RemoveIncorrectPredictedFiles"}
    /\ UnknownFile \in call.files
    /\ first_predicted # <<>>
    /\ \E file \in call.files :
          file \in first_predicted[1] /\ file \notin DOMAIN predicted_files
    /\ \E file \in DOMAIN predicted_files : predicted_files[file] = 2

L0Live0 == {f \in FilesOf(0) : ~f.being_compacted}

ExpectedL0Targets ==
    IF L0Live0 = {} THEN {}
    ELSE LET lo == CHOOSE k \in {f.smallest : f \in L0Live0} :
                       \A f \in L0Live0 : k <= f.smallest
             hi == CHOOSE k \in {f.largest : f \in L0Live0} :
                       \A f \in L0Live0 : k >= f.largest
         IN  {FileNumber(g) : g \in
                 {h \in FilesOf(1) :
                     ~h.being_compacted /\ h.smallest <= hi /\ h.largest >= lo}}

\* C6: GetPossibleTargetFilesForL0Compaction returns exactly those level-1
\* files and no level-0 file; with Score(0) > 1.0 PredictCompactionFiles
\* returns all of them.
C6_L0Targets ==
    /\ call.op = "GetPossibleTargetFilesForL0Compaction" =>
          /\ call.ret = ExpectedL0Targets
          /\ call.ret \cap NumbersOf(0) = {}
    /\ (Predicted /\ CompactionScore(0) > 100) => ExpectedL0Targets \subseteq call.ret

C6_Witness ==
    /\ call.op = "GetPossibleTargetFilesForL0Compaction"
    /\ Cardinality(L0Live0) = 2
    /\ \E g \in FilesOf(1) :
          /\ FileNumber(g) \in call.ret
          /\ \A f \in L0Live0 : g.largest < f.smallest \/ g.smallest > f.largest
    /\ \E g \in FilesOf(1) : g.being_compacted

\* the candidate rule of C7 for a level whose score is at most 1.0
CascadeRule(L) ==
    \E U \in 0..(L - 1) :
        /\ CompactionScore(U) > 100
        /\ \A m \in (U + 1)..L : CompactionScore(m) > 80

\* C7: a level 1 <= L < num_levels-1 with Score(L) <= 1.0 for which the call
\* selects files satisfies the cascade rule (its own score included) or is
\* level 1 under L0 backpressure; and with Score(0) > 1.0, Score(1) <= 0.8 and
\* no backpressure, every level-1 file returned is an L0 target.
C7_CandidateRule ==
    Predicted =>
        /\ \A L \in 1..(num_levels - 2) :
              (CompactionScore(L) <= 100 /\ PredictLevel(L) # {}) =>
                  (CascadeRule(L) \/ (L = 1 /\ CheckL1ToL2Compaction))
        /\ (CompactionScore(0) > 100 /\ CompactionScore(1) <= 80
              /\ ~CheckL1ToL2Compaction) =>
                  call.ret \cap NumbersOf(1) \subseteq ExpectedL0Targets

\* C8: CheckL1ToL2Compaction is true exactly when Score(0) > 1.0, Score(1) < 1.0
\* and one of: Score(1) >= 0.7; 8 or more level-1 files; level 2 non-empty in
\* bytes and level 1 more than twice its bytes.
C8_BackpressureRule ==
    call.op = "CheckL1ToL2Compaction" =>
        (call.flag <=>
            /\ CompactionScore(0) > 100
            /\ CompactionScore(1) < 100
            /\ \/ CompactionScore(1) >= 70
               \/ Cardinality(FilesOf(1)) >= 8
               \/ /\ NumLevelBytes(2) > 0
                  /\ NumLevelBytes(1) > 2 * NumLevelBytes(2))

\* level 1 at score 0.5 with 9 files under a level 0 at score 2.0, and neither
\* of the other two conditions (level 2 holds no byte)
C8_Witness ==
    /\ call.op = "CheckL1ToL2Compaction"
    /\ call.flag
    /\ CompactionScore(0) = 200
    /\ CompactionScore(1) = 50
    /\ Cardinality(FilesOf(1)) = 9
    /\ NumLevelBytes(2) = 0

\* C9: GetLevelCompactionFiles(level) with level < 0 or level >= num_levels-1
\* returns the empty set and never fails.
C9_OutOfRangeEmpty ==
    (call.op = "GetLevelCompactionFiles"
        /\ (call.level < 0 \/ call.level >= num_levels - 1)) =>
            (call.status = "returned" /\ call.ret = {})

\* the bytes of the files of `level` that the loop iteration for `level` selects
SelectedBytes(level) ==
    LET level_files == GetLevelCompactionFiles(level)
        selected ==
            IF NumLevelFiles(level) = 0 \/ ~WillCompact(level) \/ level_files = {}
            THEN {}
            ELSE level_files \cup ExtraRounds(level, 0, level_files)
    IN  RemovedSize(LevelFiles(level), selected)

\* C10: under round-robin selection the files one PredictCompactionFiles call
\* selects within one level total at most max_compaction_bytes.
C10_BudgetRespected ==
    (Predicted /\ options.round_robin) =>
        \A level \in 1..(num_levels - 2) :
            SelectedBytes(level) <= options.max_compaction_bytes

\* C11: the score CalculateNewScore estimates for a level >= 1 is Score(level)
\* unchanged when the removed set is empty (or holds no byte of the level),
\* 0.0 when the removed bytes exceed or equal the level's, and in every case
\* not above Score(level); the result is a double that is never negative.
C11_ScoreEstimate ==
    (call.op = "CalculateNewScore" /\ call.level \in 1..(num_levels - 2)) =>
        LET score   == FromHundredths(CompactionScore(call.level))
            total   == NumLevelBytes(call.level)
            removed == RemovedSize(LevelFiles(call.level), call.files)
        IN  /\ (call.files = {} \/ removed = 0) => call.score = score
            /\ (removed >= total /\ removed > 0) => call.score = Zero
            /\ ~Less(score, call.score)
            /\ call.score = Zero \/ Less(Zero, call.score)

\* C12: a refinement round, GetNextCompactionFilesFrom(level, excluded), starts
\* from the largest file of the level that is neither excluded nor being
\* compacted and expands it to a clean cut: the largest such file is returned,
\* the returned files of the level are disjoint from the excluded set, and no
\* other file of the level that is neither excluded nor being compacted meets
\* their merged key range.
C12_RefinementRound ==
    call.op = "GetNextCompactionFilesFrom" =>
        LET eligible == {f \in FilesOf(call.level) :
                            FileNumber(f) \notin call.files /\ ~f.being_compacted}
            same     == call.ret \cap NumbersOf(call.level)
        IN  /\ eligible # {} =>
                  \E f \in eligible : /\ \A g \in eligible : g.size <= f.size
                                      /\ FileNumber(f) \in call.ret
            /\ same \cap call.files = {}
            /\ \A g \in OutsideOverlapping(call.level, same) :
                  FileNumber(g) \in call.files \/ g.being_compacted

\* C13: in PredictCompactionFiles a refinement round of a level runs only
\* while the score estimated after removing everything accumulated so far is
\* above 1.0, at most 3 rounds run, and only the last round may find nothing:
\* the rounds start from the level's initial set, each round starts from what
\* the one before accumulated, and a loop that ends before its third round
\* ends on an empty round or on an estimate that is no longer above 1.0.
C13_RefinementBounded ==
    Predicted =>
        \A level \in DOMAIN call.rounds :
            LET rounds == call.rounds[level]
                n      == Len(rounds)
            IN  /\ n <= 3
                /\ n > 0 => rounds[1].already_predicted = GetLevelCompactionFiles(level)
                /\ \A k \in 1..n :
                      /\ ScoreAboveOne(CalculateNewScore(level, rounds[k].already_predicted))
                      /\ k < n => rounds[k].additional_files # {}
                      /\ k < n => rounds[k + 1].already_predicted =
                                     rounds[k].already_predicted \cup rounds[k].additional_files
                /\ (n \in 1..2 /\ rounds[n].additional_files # {}) =>
                      ~ScoreAboveOne(CalculateNewScore(level,
                          rounds[n].already_predicted \cup rounds[n].additional_files))

\* a level whose loop is stopped by the bound: three rounds, each finding
\* files, and the estimate still above 1.0
C13_Witness ==
    /\ Predicted
    /\ \E level \in DOMAIN call.rounds :
          LET rounds == call.rounds[level]
          IN  /\ Len(rounds) = 3
              /\ rounds[3].additional_files # {}
              /\ ScoreAboveOne(CalculateNewScore(level,
                     rounds[3].already_predicted \cup rounds[3].additional_files))

\* C14: when PredictCompactionFiles selects files of a candidate level L (the
\* initial set and every refinement addition), its result holds every file
\* of level L+1 that is not being compacted and whose key range meets the
\* range of a selected file (hence the union range of the selected files).
C14_CrossLevelPropagation ==
    Predicted =>
        \A level \in 1..(num_levels - 2) :
            \A f \in FilesOf(level) : \A g \in FilesOf(level + 1) :
                (/\ FileNumber(f) \in PredictedSameLevel(level)
                 /\ ~g.being_compacted
                 /\ f.smallest <= g.largest
                 /\ g.smallest <= f.largest)
                    => FileNumber(g) \in call.ret

\* a returned GetLevelCompactionFiles(level) call for a level that has a
\* compaction-priority order: 1..num_levels-2
CandidateCallReturned ==
    /\ LevelCallReturned
    /\ call.level \in 1..(num_levels - 2)

\* the seed spec 4.3 names: the first file not being compacted in the priority
\* order, scanning cyclically from the cursor (0 when it is past the end);
\* as an index into the level's files, or -1
ExpectedSeed(level) ==
    LET pri      == FilesByCompactionPri(level)
        n        == Len(pri)
        cursor   == IF NextCompactionIndex(level) >= n THEN 0
                    ELSE NextCompactionIndex(level)
        at(k)    == pri[((cursor + k) % n) + 1]
        steps    == {k \in 0..(n - 1) : ~FileAt(level, at(k)).being_compacted}
    IN  IF n = 0 \/ steps = {} THEN -1
        ELSE at(CHOOSE k \in steps : \A other \in steps : k <= other)

\* C15: GetLevelCompactionFiles(L), L >= 1, seeds its expansion with the first
\* file not being compacted in PriorityOrder(L), scanning cyclically from
\* NextCompactionIndex(L); the seed is in the returned set, and the returned
\* set is empty exactly when every file of the level is being compacted.
C15_SeedSelection ==
    CandidateCallReturned =>
        LET seed == ExpectedSeed(call.level)
        IN  /\ seed # -1 => FileNumber(FileAt(call.level, seed)) \in call.ret
            /\ seed = -1 <=> \A f \in FilesOf(call.level) : f.being_compacted
            /\ call.ret = {} <=> \A f \in FilesOf(call.level) : f.being_compacted

\* the cursor points at a file being compacted and the scan wraps around to
\* a seed that precedes the cursor in the priority order
C15_Witness ==
    /\ CandidateCallReturned
    /\ LET pri    == FilesByCompactionPri(call.level)
           cursor == NextCompactionIndex(call.level)
           seed   == ExpectedSeed(call.level)
       IN  /\ cursor \in 1..(Len(pri) - 1)
           /\ FileAt(call.level, pri[cursor + 1]).being_compacted
           /\ \E k \in 1..cursor : pri[k] = seed
           /\ FileNumber(FileAt(call.level, seed)) \in call.ret

\* C16: the clean-cut expansion ends after at most one more full scan than
\* the level has files, and returns the least set of files not being
\* compacted that holds the seed and is closed under "meets the merged
\* range": a closed set with the seed holds every returned file, so a file
\* that meets no range reached from the seed is never returned.
C16_LeastFixedPoint ==
    (CandidateCallReturned /\ call.ret # {}) =>
        LET level     == call.level
            seed      == FileNumber(FileAt(level, ExpectedSeed(level)))
            live      == {FileNumber(f) : f \in {g \in FilesOf(level) : ~g.being_compacted}}
            Closed(S) == \A g \in OutsideOverlapping(level, S) : g.being_compacted
        IN  /\ call.expansion_rounds + 1 <= NumLevelFiles(level) + 1
            /\ seed \in call.ret
            /\ call.ret \subseteq live
            /\ Closed(call.ret)
            /\ \A S \in SUBSET live : (seed \in S /\ Closed(S)) => call.ret \subseteq S

\* the expansion grows the seed by a file in one pass and leaves out a file
\* not being compacted that meets nothing it reached
C16_Witness ==
    /\ CandidateCallReturned
    /\ call.expansion_rounds >= 1
    /\ Cardinality(call.ret) >= 2
    /\ \E f \in FilesOf(call.level) :
          ~f.being_compacted /\ FileNumber(f) \notin call.ret

\* what PredictCompactionFiles returns with the branch
\* `level == 1 && CheckL1ToL2Compaction()` removed from will_compact
PredictWithoutBackpressure ==
    L0Predicted
    \cup UNION {IF CompactionScore(level) > 100 \/ CascadeFromAbove(level)
                THEN PredictLevel(level) ELSE {} :
                level \in 1..(num_levels - 2)}

\* C17: the L1 backpressure branch of PredictCompactionFiles decides nothing:
\* the set returned is the one returned with the branch removed, because a
\* Score(0) above 1.0 already makes the cascade test select level 1, and
\* with Score(0) <= 1.0 CheckL1ToL2Compaction is false.
C17_BackpressureDecidesNothing ==
    Predicted =>
        /\ call.ret = PredictWithoutBackpressure
        /\ CompactionScore(0) > 100 => CascadeFromAbove(1)
        /\ CompactionScore(0) <= 100 => ~CheckL1ToL2Compaction

\* the check is true for a level 1 that is not over 1.0, and level 1 is
\* predicted all the same by the cascade test
C17_Witness ==
    /\ Predicted
    /\ CheckL1ToL2Compaction
    /\ CompactionScore(1) <= 100
    /\ CascadeFromAbove(1)
    /\ call.ret \cap NumbersOf(1) # {}
    /\ PredictLevel(1) # {}

====
